---- MODULE Spec2Model ----
(***************************************************************************)
(* A model of rapt/buildlib/rapt/install_sdk.py: the property store        *)
(* (set_property / get_property), the SDK unpacking, the package           *)
(* installation, the key provisioning and the install_sdk orchestrator.    *)
(*                                                                         *)
(* Text is a sequence of tokens; the text a sequence stands for is the     *)
(* concatenation of its tokens.  "=", "\n" and " " are always tokens of    *)
(* their own, so partition("="), line splitting and strip() are computed   *)
(* on the sequence exactly as Python computes them on the string.          *)
(***************************************************************************)
EXTENDS Integers, Sequences, FiniteSets, TLC

VARIABLES
    props,      \* the two property files: name -> [exists, data]
    op,         \* PropertyStore harness: the last call, its arguments and result
    rt,         \* PropertyStore harness: results of the round-trip script
    pc,         \* install_sdk: the statement the run is at
    log,        \* install_sdk: the calls made by the current run, in order
    sdk,        \* the directory tree under plat.path("."): [dirs, files]
    keystores,  \* the keystore files that exist (native paths)
    env,        \* [windows, environ]: the platform and os.environ
    xi,         \* unpack_sdk.extract: index of the next archive member
    runs,       \* number of runs of install_sdk started
    prev,       \* the state the current run started in, and how the run
                \* before it ended
    clobbered,  \* keytool -genkey was run onto an existing keystore
    wr          \* set_property, statement by statement: the lines not yet
                \* read, those kept, those not yet written, the text in the
                \* file's buffers and the write(2) calls not yet made

vars == <<props, op, rt, wr, pc, log, sdk, keystores, env, xi, runs, prev, clobbered>>
runVars == <<pc, log, sdk, keystores, env, xi, runs, prev, clobbered>>

----------------------------------------------------------------------------
(* Bounds *)

MaxFileLen == 5     \* longest initial property file (tokens) in SpecProps
MaxRuns == 2        \* runs of install_sdk in one behaviour of Spec

----------------------------------------------------------------------------
(* Text helpers: what str.partition, str.strip and file iteration compute *)

NL == "\n"
EQ == "="

CR == "\r"

\* the control characters str.strip() removes that have no escape of their
\* own here: vertical tab and the four separators \x1c .. \x1f
VT == "\\x0b"
FS == "\\x1c"
GS == "\\x1d"
RS == "\\x1e"
US == "\\x1f"

\* the characters beyond ASCII that str.strip() removes from a str: next
\* line, no-break space, ogham space mark, en quad .. hair space, line and
\* paragraph separator, narrow no-break space, medium mathematical space,
\* ideographic space
UnicodeBlanks ==
    {"\\x85", "\\xa0", "\\u1680", "\\u2000", "\\u2001", "\\u2002", "\\u2003",
     "\\u2004", "\\u2005", "\\u2006", "\\u2007", "\\u2008", "\\u2009", "\\u200a",
     "\\u2028", "\\u2029", "\\u202f", "\\u205f", "\\u3000"}

\* the characters str.strip() removes
IsSpace(c) ==
    c \in {" ", "\n", "\t", "\r", "\f", VT, FS, GS, RS, US} \cup UnicodeBlanks

SetMin(S) == CHOOSE x \in S : \A y \in S : x <= y
SetMax(S) == CHOOSE x \in S : \A y \in S : x >= y

\* index of the first occurrence of token c in s, 0 when there is none
IndexOf(s, c) ==
    LET I == {i \in 1..Len(s) : s[i] = c}
    IN  IF I = {} THEN 0 ELSE SetMin(I)

\* open(properties, "r"): text mode hands "\r\n" and a lone "\r" to the
\* program as "\n"
RECURSIVE Universal(_)
Universal(s) ==
    IF s = <<>> THEN <<>>
    ELSE IF Head(s) = CR
    THEN <<NL>> \o Universal(IF Len(s) >= 2 /\ s[2] = NL
                             THEN Tail(Tail(s)) ELSE Tail(s))
    ELSE <<Head(s)>> \o Universal(Tail(s))

\* "for l in f": the lines of a text, each keeping its "\n"; a last line
\* without "\n" is a line too
RECURSIVE SplitLines(_)
SplitLines(s) ==
    IF s = <<>> THEN <<>>
    ELSE LET i == IndexOf(s, NL)
         IN  IF i = 0 THEN <<s>>
             ELSE <<SubSeq(s, 1, i)>> \o SplitLines(SubSeq(s, i + 1, Len(s)))

\* f.write(l) for each l: the concatenation of the lines
RECURSIVE JoinLines(_)
JoinLines(ls) ==
    IF ls = <<>> THEN <<>> ELSE Head(ls) \o JoinLines(Tail(ls))

\* l.partition("="): (before, after) the first "="; no "=" gives (l, "")
Partition(l) ==
    LET i == IndexOf(l, EQ)
    IN  IF i = 0 THEN [k |-> l, v |-> <<>>]
        ELSE [k |-> SubSeq(l, 1, i - 1), v |-> SubSeq(l, i + 1, Len(l))]

\* s.strip()
Strip(s) ==
    LET I == {i \in 1..Len(s) : ~IsSpace(s[i])}
    IN  IF I = {} THEN <<>> ELSE SubSeq(s, SetMin(I), SetMax(I))

\* the key of a line as both functions compute it
LineKey(l) == Strip(Partition(l).k)
LineValue(l) == Strip(Partition(l).v)

----------------------------------------------------------------------------
(* The property store *)

\* data is what is on disk; what is written is stored as it is written
\* (os.linesep is "\n")
NoFile == [exists |-> FALSE, data |-> <<>>]
File(d) == [exists |-> TRUE, data |-> d]

\* the lines read by set_property; a file that cannot be opened reads as none
ReadLines(f) == IF f.exists THEN SplitLines(Universal(f.data)) ELSE <<>>

HasKey(f, key) ==
    \E i \in 1..Len(ReadLines(f)) : LineKey(ReadLines(f)[i]) = key

\* the lines set_property keeps: those whose key differs
KeptLines(f, key) ==
    SelectSeq(ReadLines(f), LAMBDA l : LineKey(l) # key)

\* "{}={}\n".format(key, value)
FormatLine(key, value) == key \o <<EQ>> \o value \o <<NL>>

\* a set_property that rewrites the file even when the key is there and
\* replace is false
set_property_always(f, key, value, replace) ==
    File(JoinLines(KeptLines(f, key)) \o FormatLine(key, value))

\* set_property(properties, key, value, replace): the file afterwards
set_property(f, key, value, replace) ==
    IF HasKey(f, key) /\ ~replace
    THEN f
    ELSE File(JoinLines(KeptLines(f, key)) \o FormatLine(key, value))

\* results of get_property
Raised == [tag |-> "raise", val |-> <<>>]
None == [tag |-> "None", val |-> <<>>]
Str(v) == [tag |-> "str", val |-> v]

\* get_property(properties, key)
get_property(f, key) ==
    IF ~f.exists THEN Raised
    ELSE LET ls == SplitLines(Universal(f.data))
             I == {i \in 1..Len(ls) : LineKey(ls[i]) = key}
         IN  IF I = {} THEN None ELSE Str(LineValue(ls[SetMin(I)]))

----------------------------------------------------------------------------
(* PropertyStore harness: calls of set_property and get_property on a      *)
(* property file with arbitrary content                                    *)

Alphabet == {"a", "b", "1", EQ, NL, CR, " "}
Keys == {<<"a">>, <<"b">>}
Values == {<<"1">>, <<"2">>}

RECURSIVE SeqsUpTo(_, _)
SeqsUpTo(S, n) ==
    IF n = 0 THEN {<<>>}
    ELSE LET R == SeqsUpTo(S, n - 1)
         IN  R \cup {Append(s, c) : s \in {r \in R : Len(r) = n - 1}, c \in S}

InitFiles == {NoFile} \cup {File(d) : d \in SeqsUpTo(Alphabet, MaxFileLen)}

\* no write is under way
NoWrite ==
    [unread |-> <<>>, lines |-> <<>>, pending |-> <<>>, raw |-> <<>>,
     buf |-> <<>>, wbuf |-> <<>>, readfail |-> FALSE, exc |-> FALSE,
     at |-> "none"]

NoOp == [name |-> "none", key |-> <<>>, value |-> <<>>, replace |-> FALSE,
         before |-> NoFile, result |-> None]

InitProps ==
    /\ \E f \in InitFiles : props = [local |-> f, bundle |-> NoFile]
    /\ op = NoOp
    /\ rt = <<>>
    /\ pc = "idle" /\ log = <<>> /\ sdk = [dirs |-> {}, files |-> {}]
    /\ keystores = {} /\ env = [windows |-> FALSE, environ |-> {}]
    /\ xi = 1 /\ runs = 0
    /\ prev = [valid |-> FALSE, declined |-> FALSE, interrupted |-> FALSE,
               props |-> props, sdk |-> sdk, keystores |-> keystores]
    /\ clobbered = FALSE
    /\ wr = NoWrite

\* one call set_property(local_properties, key, value, replace)
SetProperty ==
    /\ op.name = "none" /\ rt = <<>>
    /\ \E key \in Keys, value \in Values, replace \in BOOLEAN :
        /\ props' = [props EXCEPT !.local = set_property(@, key, value, replace)]
        /\ op' = [name |-> "set", key |-> key, value |-> value, replace |-> replace,
                  before |-> props.local, result |-> None]
    /\ UNCHANGED <<rt, wr, runVars>>

\* one call get_property(local_properties, key)
GetProperty ==
    /\ op.name = "none" /\ rt = <<>>
    /\ \E key \in Keys :
        op' = [name |-> "get", key |-> key, value |-> <<>>, replace |-> FALSE,
               before |-> props.local, result |-> get_property(props.local, key)]
    /\ UNCHANGED <<props, rt, wr, runVars>>

\* the round-trip script: set(f,a,1); get; set(f,a,2,replace=False); get;
\* set(f,a,2,replace=True); get.  rt collects the three results of get and
\* the file after each set.
RoundTripStep ==
    /\ op.name \in {"none", "script"} /\ Len(rt) < 3
    /\ op.name = "none" => rt = <<>>
    /\ LET n == Len(rt) + 1
           value == IF n = 1 THEN <<"1">> ELSE <<"2">>
           f == set_property(props.local, <<"a">>, value, n = 3)
       IN  /\ props' = [props EXCEPT !.local = f]
           /\ rt' = Append(rt, [file |-> f, got |-> get_property(f, <<"a">>)])
           /\ op' = [name |-> "script", key |-> <<"a">>, value |-> value,
                     replace |-> (n = 3),
                     before |-> IF n = 1 THEN props.local ELSE op.before,
                     result |-> None]
    /\ UNCHANGED <<wr, runVars>>

NextProps == SetProperty \/ GetProperty \/ RoundTripStep

SpecProps == InitProps /\ [][NextProps]_vars

----------------------------------------------------------------------------------------------------------------------------------------------------------------------------------------------------------------------------------------------------------------
(* set_property statement by statement.  The read loop takes one line at   *)
(* a time; an exception in it is swallowed by the bare except and the call *)
(* goes on with the lines read so far.  The file is then opened with mode  *)
(* "w", which empties it; each f.write puts a line into the text layer's   *)
(* pending text, which goes to the buffered writer when a chunk is full,   *)
(* and from there to the disk, one write(2) at a time, when the writer's   *)
(* buffer cannot take it; leaving the with block closes the file, which    *)
(* writes everything out.  The process may be killed at any point, also    *)
(* inside a write(2).  Sizes are in bytes of UTF-8.  The files of this     *)
(* harness may hold a no-break space, a blank of two bytes.                *)

MaxWriteLen == 4    \* longest initial property file (characters) in SpecWrite

WriteAlphabet == Alphabet \cup {"\\xa0"}

InitWrite ==
    /\ \E f \in {NoFile} \cup {File(d) : d \in SeqsUpTo(WriteAlphabet, MaxWriteLen)} :
            props = [local |-> f, bundle |-> NoFile]
    /\ op = NoOp
    /\ rt = <<>>
    /\ pc = "idle" /\ log = <<>> /\ sdk = [dirs |-> {}, files |-> {}]
    /\ keystores = {} /\ env = [windows |-> FALSE, environ |-> {}]
    /\ xi = 1 /\ runs = 0
    /\ prev = [valid |-> FALSE, declined |-> FALSE, interrupted |-> FALSE,
               props |-> props, sdk |-> sdk, keystores |-> keystores]
    /\ clobbered = FALSE
    /\ wr = NoWrite

\* the value set_property is called with in this harness
WriteValue == <<"1">>

\* the chunk size of the text layer of open(properties, "w")
ChunkSize == 8192

\* the size of the buffer under it: the block size of the file system
BufferSize == 4096

\* A token is an ASCII character, a word of ASCII characters, or a
\* character beyond ASCII under its escape: "\\xhh", "\\uhhhh" or
\* "\\Uhhhhhhhh" (the control characters VT, FS, GS, RS, US are "\\xhh" too).

\* the value of a hexadecimal digit
HexVal(d) == CHOOSE i \in 0..15 : SubSeq("0123456789abcdef", i + 1, i + 1) = d

\* len(c.encode("utf-8")): one byte below U+0080, two below U+0800, three
\* below U+10000, four from there on
Width(c) ==
    IF Len(c) = 4 /\ SubSeq(c, 1, 2) = "\\x"
    THEN (IF HexVal(SubSeq(c, 3, 3)) < 8 THEN 1 ELSE 2)
    ELSE IF Len(c) = 6 /\ SubSeq(c, 1, 2) = "\\u"
    THEN (IF SubSeq(c, 3, 3) = "0" /\ HexVal(SubSeq(c, 4, 4)) < 8
          THEN (IF SubSeq(c, 4, 4) = "0" /\ HexVal(SubSeq(c, 5, 5)) < 8
                THEN 1 ELSE 2)
          ELSE 3)
    ELSE IF Len(c) = 10 /\ SubSeq(c, 1, 2) = "\\U"
    THEN 4
    ELSE Len(c)

\* len(s.encode("utf-8"))
RECURSIVE Bytes(_)
Bytes(s) ==
    IF s = <<>> THEN 0
    ELSE IF Len(s) = 1 THEN Width(s[1])
    ELSE Bytes(SubSeq(s, 1, Len(s) \div 2))
            + Bytes(SubSeq(s, Len(s) \div 2 + 1, Len(s)))

\* the first k bytes of character c, k less than its width: no character
Partial(c, k) == c \o "[:" \o SubSeq("123", k, k) \o "]"

\* the first n bytes of the encoding of s: whole characters and, when the
\* cut falls inside one, a part of it
BytePrefix(s, n) ==
    LET k == SetMax({j \in 0..Len(s) : Bytes(SubSeq(s, 1, j)) <= n})
        rest == n - Bytes(SubSeq(s, 1, k))
    IN  SubSeq(s, 1, k)
            \o (IF rest > 0 THEN <<Partial(s[k + 1], rest)>> ELSE <<>>)

\* the buffered writer takes data: it keeps what fits into its buffer;
\* otherwise it writes its buffer out, and the data too when that is longer
\* than the buffer.  raw is the queue of write(2) calls this makes.
BufferedWrite(io, data) ==
    IF Bytes(data) <= BufferSize - Bytes(io.wbuf)
    THEN [io EXCEPT !.wbuf = @ \o data]
    ELSE [io EXCEPT
            !.raw = @ \o (IF io.wbuf = <<>> THEN <<>> ELSE <<io.wbuf>>)
                      \o (IF Bytes(data) > BufferSize THEN <<data>> ELSE <<>>),
            !.wbuf = IF Bytes(data) > BufferSize THEN <<>> ELSE data]

\* the text layer hands its pending text to the buffered writer
TextFlush(io) ==
    IF io.buf = <<>> THEN io
    ELSE [BufferedWrite(io, io.buf) EXCEPT !.buf = <<>>]

\* f.write(l): pending text that l would take over the chunk size is handed
\* on first; l is added; a full chunk is handed on
TextWrite(io, l) ==
    LET io1 == IF Bytes(io.buf) + Bytes(l) > ChunkSize THEN TextFlush(io) ELSE io
        io2 == [io1 EXCEPT !.buf = @ \o l]
    IN  IF Bytes(io2.buf) >= ChunkSize THEN TextFlush(io2) ELSE io2

\* f.close(): the pending text is handed on, the writer's buffer written out
CloseFile(io) ==
    LET f == TextFlush(io)
    IN  [f EXCEPT !.raw = @ \o (IF f.wbuf = <<>> THEN <<>> ELSE <<f.wbuf>>),
                  !.wbuf = <<>>]

\* the open file: the write(2) calls to be made, the pending text, the
\* writer's buffer
OpenFile == [raw |-> wr.raw, buf |-> wr.buf, wbuf |-> wr.wbuf]

\* set_property is called; open(properties, "r"), which fails on a missing
\* file and leaves no line to read
SetPropertyCall ==
    /\ op.name = "none" /\ rt = <<>>
    /\ \E key \in Keys, replace \in BOOLEAN :
        op' = [name |-> "reading", key |-> key, value |-> WriteValue,
               replace |-> replace, before |-> props.local, result |-> None]
    /\ wr' = [NoWrite EXCEPT !.unread = ReadLines(props.local)]
    /\ UNCHANGED <<props, rt, runVars>>

\* one turn of the read loop: a line of the key ends the call when replace
\* is false and is dropped when it is true; any other line is kept
ReadLine ==
    /\ op.name = "reading" /\ wr.unread # <<>>
    /\ LET l == Head(wr.unread)
       IN  IF LineKey(l) = op.key /\ ~op.replace
           THEN /\ op' = [op EXCEPT !.name = "set"]
                /\ wr' = [wr EXCEPT !.unread = <<>>, !.at = "return"]
           ELSE /\ wr' = [wr EXCEPT
                            !.unread = Tail(@),
                            !.lines = IF LineKey(l) = op.key
                                      THEN @ ELSE Append(@, l)]
                /\ UNCHANGED op
    /\ UNCHANGED <<props, rt, runVars>>

\* an exception in the read loop (the text cannot be decoded, the read
\* fails, the user interrupts): except: pass, and the call goes on with the
\* lines read so far
ReadError ==
    /\ op.name = "reading" /\ wr.unread # <<>>
    /\ wr' = [wr EXCEPT !.unread = <<>>, !.readfail = TRUE]
    /\ UNCHANGED <<props, op, rt, runVars>>

\* open(properties, "w"): the file is empty, the kept lines and the new one
\* are to be written
WriteOpen ==
    /\ op.name = "reading" /\ wr.unread = <<>>
    /\ props' = [props EXCEPT !.local = File(<<>>)]
    /\ wr' = [wr EXCEPT !.pending = Append(wr.lines,
                                           FormatLine(op.key, op.value))]
    /\ op' = [op EXCEPT !.name = "writing"]
    /\ UNCHANGED <<rt, runVars>>

\* one f.write
WriteLine ==
    /\ op.name = "writing" /\ wr.raw = <<>> /\ wr.pending # <<>>
    /\ LET io == TextWrite(OpenFile, Head(wr.pending))
       IN  wr' = [wr EXCEPT !.pending = Tail(@), !.raw = io.raw,
                            !.buf = io.buf, !.wbuf = io.wbuf]
    /\ UNCHANGED <<props, op, rt, runVars>>

\* one write(2): the data is on disk
RawWrite ==
    /\ op.name \in {"writing", "closing"} /\ wr.raw # <<>>
    /\ props' = [props EXCEPT !.local = File(@.data \o Head(wr.raw))]
    /\ wr' = [wr EXCEPT !.raw = Tail(@)]
    /\ UNCHANGED <<op, rt, runVars>>

\* the end of the with block: the file is closed
WriteClose ==
    /\ op.name = "writing" /\ wr.raw = <<>> /\ wr.pending = <<>>
    /\ LET io == CloseFile(OpenFile)
       IN  wr' = [wr EXCEPT !.raw = io.raw, !.buf = io.buf, !.wbuf = io.wbuf]
    /\ op' = [op EXCEPT !.name = "closing"]
    /\ UNCHANGED <<props, rt, runVars>>

\* an exception between two statements of the with block: the with block
\* closes the file, the lines not yet written are not written
Interrupt ==
    /\ op.name = "writing" /\ wr.raw = <<>> /\ wr.pending # <<>>
    /\ LET io == CloseFile(OpenFile)
       IN  wr' = [wr EXCEPT !.raw = io.raw, !.buf = io.buf, !.wbuf = io.wbuf,
                            !.exc = TRUE, !.at = "writing"]
    /\ op' = [op EXCEPT !.name = "closing"]
    /\ UNCHANGED <<props, rt, runVars>>

\* the file is closed: set_property returns, or the exception goes on
WriteReturn ==
    /\ op.name = "closing" /\ wr.raw = <<>>
    /\ op' = [op EXCEPT !.name = IF wr.exc THEN "interrupted" ELSE "set"]
    /\ wr' = [wr EXCEPT !.at = IF wr.exc THEN @ ELSE "return"]
    /\ UNCHANGED <<props, rt, runVars>>

\* the process is killed: what has not reached the disk is lost; of a
\* write(2) under way any number of bytes may have reached it
Kill ==
    /\ op.name \in {"reading", "writing", "closing"}
    /\ \E n \in 0..(IF wr.raw = <<>> THEN 0 ELSE Bytes(Head(wr.raw)) - 1) :
        props' = [props EXCEPT
                     !.local = IF n = 0 THEN @
                               ELSE File(@.data \o BytePrefix(Head(wr.raw), n))]
    /\ op' = [op EXCEPT !.name = "interrupted"]
    /\ wr' = [wr EXCEPT !.at = op.name]
    /\ UNCHANGED <<rt, runVars>>

NextWrite ==
    \/ SetPropertyCall
    \/ ReadLine
    \/ ReadError
    \/ WriteOpen
    \/ WriteLine
    \/ RawWrite
    \/ WriteClose
    \/ Interrupt
    \/ WriteReturn
    \/ Kill

SpecWrite == InitWrite /\ [][NextWrite]_vars

----------------------------------------------------------------------------
(* The platform descriptor (plat) and the file system *)

\* s.replace("\\", "/")
Slashes(s) == [i \in 1..Len(s) |-> IF s[i] = "\\" THEN "/" ELSE s[i]]

\* plat.path(name): the absolute native path of a file of the RAPT directory
PlatPath(name) ==
    IF env.windows THEN <<"C:", "\\", "rapt", "\\", name>>
    ELSE <<"/", "rapt", "/", name>>

\* plat.sdk
PlatSdk == PlatPath("Sdk")

\* a keystore path a user may have put into a property file
CustomKeystore == <<"/", "home", "/", "my.keystore">>

\* os.path.exists(p) for a keystore path
KeystoreExists(p) == p \in keystores

\* paths under plat.path("."), as sequences of names
SdkDir == <<"Sdk">>
CmdlineTools == <<"Sdk", "cmdline-tools">>
Latest == <<"Sdk", "latest">>
CmdlineLatest == <<"Sdk", "cmdline-tools", "latest">>
\* plat.sdkmanager
SdkManager == <<"Sdk", "cmdline-tools", "latest", "bin", "sdkmanager">>

\* the members of the command line tools archive, in archive order
Archive == << <<"cmdline-tools", "bin", "sdkmanager">>,
              <<"cmdline-tools", "NOTICE.txt">> >>

EmptyTree == [dirs |-> {}, files |-> {}]

PathExists(fs, p) == p \in fs.dirs \/ p \in fs.files

IsPrefix(p, q) == Len(p) <= Len(q) /\ SubSeq(q, 1, Len(p)) = p

\* the proper ancestors of a path
Ancestors(p) == {SubSeq(p, 1, n) : n \in 1..(Len(p) - 1)}

\* the first step of zf.extract of one member: its directories are made
ExtractDirs(fs, m) ==
    [fs EXCEPT !.dirs = @ \cup Ancestors(SdkDir \o m)]

\* an extraction straight into the final layout
ExtractPathLatest(m) == CmdlineLatest \o Tail(m)

\* where zf.extractall("Sdk") puts a member
ExtractPath(m) == SdkDir \o m

\* zf.extract of one member: its directories are made as needed, the file is
\* written (over an older one)
ExtractMember(fs, m) ==
    [dirs |-> fs.dirs \cup Ancestors(ExtractPath(m)),
     files |-> fs.files \cup {ExtractPath(m)}]

\* the tree with everything under src moved under dst
Moved(fs, src, dst) ==
    LET mv(p) == IF IsPrefix(src, p)
                 THEN dst \o SubSeq(p, Len(src) + 1, Len(p)) ELSE p
    IN  [dirs |-> {mv(p) : p \in fs.dirs}, files |-> {mv(p) : p \in fs.files}]

\* os.rename(src, dst) of a directory: fails when src is missing, when the
\* parent of dst is missing, and when dst exists, except that POSIX replaces
\* an empty directory
os_rename(fs, src, dst) ==
    LET dstEmptyDir == /\ dst \in fs.dirs
                       /\ ~\E p \in fs.dirs \cup fs.files :
                              IsPrefix(dst, p) /\ p # dst
        ok == /\ PathExists(fs, src)
              /\ Ancestors(dst) \subseteq fs.dirs
              /\ PathExists(fs, dst) =>
                    (~env.windows /\ src \in fs.dirs /\ dstEmptyDir)
    IN  [ok |-> ok, fs |-> IF ok THEN Moved(fs, src, dst) ELSE fs]

\* os.mkdir(p)
os_mkdir(fs, p) ==
    LET ok == ~PathExists(fs, p) /\ Ancestors(p) \subseteq fs.dirs
    IN  [ok |-> ok,
         fs |-> IF ok THEN [fs EXCEPT !.dirs = @ \cup {p}] ELSE fs]

\* the three steps of the reorganisation after extractall
Reorganize(step, fs) ==
    CASE step = "rename1" -> os_rename(fs, CmdlineTools, Latest)
      [] step = "mkdir"   -> os_mkdir(fs, CmdlineTools)
      [] step = "rename2" -> os_rename(fs, Latest, CmdlineLatest)

\* wanted_packages: (package id, path under plat.sdk)
wanted_packages ==
    << [id |-> "platform-tools", path |-> <<"Sdk", "platform-tools">>],
       [id |-> "platforms;android-30", path |-> <<"Sdk", "platforms", "android-30">>] >>

\* a list that names every wanted package, missing or not
MissingPackagesAll(fs) ==
    [i \in 1..Len(wanted_packages) |-> wanted_packages[i].id]

\* get_packages: the ids of the wanted packages whose path is missing
MissingPackages(fs) ==
    LET miss == SelectSeq(wanted_packages, LAMBDA w : ~PathExists(fs, w.path))
    IN  [i \in 1..Len(miss) |-> miss[i].id]

\* what a successful sdkmanager install of the given ids leaves on disk
InstallPackages(fs, ids) ==
    LET got == {i \in 1..Len(wanted_packages) :
                    \E n \in 1..Len(ids) : ids[n] = wanted_packages[i].id}
    IN  [fs EXCEPT !.dirs = @ \cup UNION {Ancestors(wanted_packages[i].path)
                                            \cup {wanted_packages[i].path} : i \in got}]

----------------------------------------------------------------------------
(* install_sdk and the functions it calls *)

\* one call on the interactive surface, on the command runner or on the
\* property store: the function that made it, what was called, with what,
\* and whether it succeeded (for yesno and terms: the answer)
Ev(fn, ev, arg, ok) == [fn |-> fn, ev |-> ev, arg |-> arg, ok |-> ok]

\* an install_sdk that unpacks the SDK before it checks the JDK
install_sdk_unpack_first ==
    <<"copy_project", "unpack_sdk", "check_java", "get_packages",
      "generate_keys", "generate_bundle_keys",
      "sdk_dir_local", "sdk_dir_bundle", "final_success">>

\* the body of install_sdk, statement by statement
install_sdk ==
    <<"copy_project", "check_java", "unpack_sdk", "get_packages",
      "generate_keys", "generate_bundle_keys",
      "sdk_dir_local", "sdk_dir_bundle", "final_success">>

\* the statement of install_sdk that follows the given one
After(step) ==
    LET i == CHOOSE n \in 1..Len(install_sdk) : install_sdk[n] = step
    IN  install_sdk[i + 1]

\* interface.fail(msg): the message is shown and the run ends
InterfaceFail == "failed"

\* a caller that goes on whatever run() returned
OnResultIgnored(ok, next) == next

\* "if not run(...): interface.fail(...)"
OnResult(ok, next) == IF ok THEN next ELSE InterfaceFail

\* the messages of a failed step
FailEvents(fn, ok, next) ==
    IF ~ok
    THEN <<Ev(fn, "fail", <<>>, FALSE)>> ELSE <<>>

\* rapt.build.copy_project(False)
CopyProject ==
    /\ pc = "copy_project"
    /\ log' = Append(log, Ev("install_sdk", "copy_project", <<>>, TRUE))
    /\ pc' = After("copy_project")
    /\ UNCHANGED <<props, op, rt, wr, sdk, keystores, env, xi, runs, prev, clobbered>>

\* check_java: the message shown before the test program is compiled
check_java ==
    /\ pc = "check_java"
    /\ log' = Append(log, Ev("check_java", "info", <<>>, TRUE))
    /\ pc' = "check_java.javac"
    /\ UNCHANGED <<props, op, rt, wr, sdk, keystores, env, xi, runs, prev, clobbered>>

\* check_java: javac on the test program
check_javac ==
    /\ pc = "check_java.javac"
    /\ \E ok \in BOOLEAN :
        /\ log' = log \o <<Ev("check_java", "call", <<"javac">>, ok)>>
                      \o FailEvents("check_java", ok, "check_java.java")
        /\ pc' = OnResult(ok, "check_java.java")
    /\ UNCHANGED <<props, op, rt, wr, sdk, keystores, env, xi, runs, prev, clobbered>>

\* check_java: java on the compiled test program
check_java_version ==
    /\ pc = "check_java.java"
    /\ \E ok \in BOOLEAN :
        /\ log' = log \o <<Ev("check_java", "call", <<"java">>, ok)>>
                      \o FailEvents("check_java", ok, After("check_java"))
                      \o (IF ok THEN <<Ev("check_java", "success", <<>>, TRUE)>>
                          ELSE <<>>)
        /\ pc' = OnResult(ok, After("check_java"))
    /\ UNCHANGED <<props, op, rt, wr, sdk, keystores, env, xi, runs, prev, clobbered>>

\* name in os.environ
InEnviron(name) == \E e \in env.environ : e.name = name

\* an unpack_sdk that does not look for plat.sdkmanager first
UnpackEntryAlways(exists, no_terms) ==
    IF no_terms THEN "unpack_sdk.download" ELSE "unpack_sdk.terms"

\* an unpack_sdk that shows the terms only when RAPT_NO_TERMS is set
UnpackEntryTermsInverted(exists, no_terms) ==
    IF exists THEN After("unpack_sdk")
    ELSE IF no_terms THEN "unpack_sdk.terms" ELSE "unpack_sdk.download"

\* unpack_sdk, up to the download: where it goes from its first statement
UnpackEntry(exists, no_terms) ==
    IF exists THEN After("unpack_sdk")
    ELSE IF no_terms THEN "unpack_sdk.download" ELSE "unpack_sdk.terms"

unpack_sdk ==
    /\ pc = "unpack_sdk"
    /\ pc' = UnpackEntry(PathExists(sdk, SdkManager), InEnviron("RAPT_NO_TERMS"))
    /\ log' = IF pc' = After("unpack_sdk")
              THEN Append(log, Ev("unpack_sdk", "success", <<"already">>, TRUE))
              ELSE log
    /\ UNCHANGED <<props, op, rt, wr, sdk, keystores, env, xi, runs, prev, clobbered>>

\* interface.terms: the user accepts, or the run ends
Terms ==
    /\ pc = "unpack_sdk.terms"
    /\ \E accept \in BOOLEAN :
        /\ log' = Append(log, Ev("unpack_sdk", "terms", <<>>, accept))
        /\ pc' = IF accept THEN "unpack_sdk.download" ELSE InterfaceFail
    /\ UNCHANGED <<props, op, rt, wr, sdk, keystores, env, xi, runs, prev, clobbered>>

\* interface.download: the archive arrives, or the run ends
Download ==
    /\ pc = "unpack_sdk.download"
    /\ \E ok \in BOOLEAN :
        /\ log' = log \o <<Ev("unpack_sdk", "info", <<"downloading">>, TRUE),
                           Ev("unpack_sdk", "download", <<>>, ok)>>
                      \o (IF ok
                          THEN <<Ev("unpack_sdk", "info", <<"extracting">>, TRUE),
                                 Ev("unpack_sdk", "background", <<>>, TRUE)>>
                          ELSE <<>>)
        /\ pc' = IF ok THEN "unpack_sdk.extractall" ELSE InterfaceFail
    /\ xi' = 1
    /\ UNCHANGED <<props, op, rt, wr, sdk, keystores, env, runs, prev, clobbered>>

\* extract: zf.extractall("Sdk"), one member at a time
extract ==
    /\ pc = "unpack_sdk.extractall"
    /\ sdk' = ExtractMember(sdk, Archive[xi])
    /\ IF xi = Len(Archive)
       THEN pc' = "unpack_sdk.rename1" /\ xi' = 1
       ELSE pc' = pc /\ xi' = xi + 1
    /\ UNCHANGED <<props, op, rt, wr, log, keystores, env, runs, prev, clobbered>>

\* extract: extractall raises on a member: before anything of the member
\* is created (its directories cannot be made; the archive is no zip file),
\* with its directories made and no file (the member cannot be opened), or
\* with its directories and its file on disk (its content fails the CRC
\* test); the exception ends the run
ExtractError ==
    /\ pc = "unpack_sdk.extractall"
    /\ \E reached \in {"none", "dirs", "file"} :
        sdk' = CASE reached = "none" -> sdk
                 [] reached = "dirs" -> ExtractDirs(sdk, Archive[xi])
                 [] reached = "file" -> ExtractMember(sdk, Archive[xi])
    /\ log' = Append(log, Ev("unpack_sdk", "raise", <<"extractall">>, FALSE))
    /\ pc' = "failed"
    /\ UNCHANGED <<props, op, rt, wr, keystores, env, xi, runs, prev, clobbered>>

\* the statement after each step of the reorganisation
AfterReorganize(step) ==
    CASE step = "rename1" -> "unpack_sdk.mkdir"
      [] step = "mkdir"   -> "unpack_sdk.rename2"
      [] step = "rename2" -> After("unpack_sdk")

\* extract: os.rename, os.mkdir, os.rename; an OSError ends the run
ReorganizeStep ==
    /\ \E step \in {"rename1", "mkdir", "rename2"} :
        /\ pc = "unpack_sdk." \o step
        /\ LET r == Reorganize(step, sdk)
           IN  /\ sdk' = r.fs
               /\ pc' = IF r.ok THEN AfterReorganize(step) ELSE "failed"
               /\ log' = IF ~r.ok
                         THEN Append(log, Ev("unpack_sdk", "raise", <<step>>, FALSE))
                         ELSE IF step = "rename2"
                         THEN Append(log, Ev("unpack_sdk", "success", <<"unpacked">>, TRUE))
                         ELSE log
    /\ UNCHANGED <<props, op, rt, wr, keystores, env, xi, runs, prev, clobbered>>

\* the statements of the unit of work interface.background(extract) runs
ExtractUnit ==
    {"unpack_sdk.extractall", "unpack_sdk.rename1", "unpack_sdk.mkdir",
     "unpack_sdk.rename2"}

\* the statements that run as a cancellable unit of work: run_slow and
\* interface.background
Cancellable ==
    {"check_java.javac", "check_java.java",
     "unpack_sdk.extractall", "unpack_sdk.rename1", "unpack_sdk.mkdir",
     "unpack_sdk.rename2",
     "get_packages.update", "get_packages.licenses", "get_packages.install"}

\* the user cancels the unit of work that is running
Cancel ==
    /\ pc \in Cancellable
    /\ log' = Append(log, Ev("interface", "cancel", <<pc>>, FALSE))
    /\ pc' = "cancelled"
    /\ UNCHANGED <<props, op, rt, wr, sdk, keystores, env, xi, runs, prev, clobbered>>

\* get_packages: the list of missing packages decides whether sdkmanager runs
get_packages ==
    /\ pc = "get_packages"
    /\ IF MissingPackages(sdk) = <<>>
       THEN /\ pc' = After("get_packages")
            /\ log' = Append(log, Ev("get_packages", "success", <<>>, TRUE))
       ELSE /\ pc' = "get_packages.update"
            /\ log' = Append(log, Ev("get_packages", "info", <<>>, TRUE))
    /\ UNCHANGED <<props, op, rt, wr, sdk, keystores, env, xi, runs, prev, clobbered>>

\* get_packages: sdkmanager --update, --licenses, then the missing packages
SdkManagerArgs(step, fs) ==
    CASE step = "update"   -> <<"sdkmanager", "yes=True", "--update">>
      [] step = "licenses" -> <<"sdkmanager", "yes=True", "--licenses">>
      [] step = "install"  -> <<"sdkmanager", "yes=True">> \o MissingPackages(fs)

AfterSdkManager(step) ==
    CASE step = "update"   -> "get_packages.licenses"
      [] step = "licenses" -> "get_packages.install"
      [] step = "install"  -> After("get_packages")

RunSdkManager ==
    /\ \E step \in {"update", "licenses", "install"}, ok \in BOOLEAN :
        /\ pc = "get_packages." \o step
        /\ pc' = OnResult(ok, AfterSdkManager(step))
        /\ log' = log \o <<Ev("get_packages", "call", SdkManagerArgs(step, sdk), ok)>>
                      \o FailEvents("get_packages", ok, AfterSdkManager(step))
                      \o (IF ok /\ step = "install"
                          THEN <<Ev("get_packages", "success", <<>>, TRUE)>> ELSE <<>>)
        /\ sdk' = IF ok /\ step = "install"
                  THEN InstallPackages(sdk, MissingPackages(sdk)) ELSE sdk
    /\ UNCHANGED <<props, op, rt, wr, keystores, env, xi, runs, prev, clobbered>>

----------------------------------------------------------------------------
(* Key provisioning *)

KeyAlias == <<"key.alias">>
KeyStorePassword == <<"key.store.password">>
KeyAliasPassword == <<"key.alias.password">>
KeyStore == <<"key.store">>
SdkDirKey == <<"sdk.dir">>
Android == <<"android">>

\* a seeding that leaves out key.alias.password
SeedDefaultsNoAliasPassword(f, default_keystore) ==
    LET f1 == set_property(f, KeyAlias, Android, FALSE)
        f2 == set_property(f1, KeyStorePassword, Android, FALSE)
    IN  set_property(f2, KeyStore, default_keystore, FALSE)

\* the four first-write-wins writes that open generate_keys and
\* generate_bundle_keys
SeedDefaults(f, default_keystore) ==
    LET f1 == set_property(f, KeyAlias, Android, FALSE)
        f2 == set_property(f1, KeyStorePassword, Android, FALSE)
        f3 == set_property(f2, KeyAliasPassword, Android, FALSE)
    IN  set_property(f3, KeyStore, default_keystore, FALSE)

SeedEvents(fn, file) ==
    <<Ev(fn, "set_property", <<file, "key.alias">>, TRUE),
      Ev(fn, "set_property", <<file, "key.store.password">>, TRUE),
      Ev(fn, "set_property", <<file, "key.alias.password">>, TRUE),
      Ev(fn, "set_property", <<file, "key.store">>, TRUE)>>

\* a decision with the test for the keystore file the wrong way round
KeyDecisionInverted(stored, default_keystore, exists) ==
    IF stored # Str(default_keystore) THEN "custom"
    ELSE IF exists THEN "create"
    ELSE "exists"

\* a decision that does not look at the stored path
KeyDecisionNoCustomCheck(stored, default_keystore, exists) ==
    IF exists THEN "exists" ELSE "create"

\* a decision that creates a key whenever the stored path is the default
KeyDecisionNoExistsCheck(stored, default_keystore, exists) ==
    IF stored # Str(default_keystore) THEN "custom" ELSE "create"

\* the two early returns of generate_keys and generate_bundle_keys: the
\* stored path is not the default one; the default keystore file exists
KeyDecision(stored, default_keystore, exists) ==
    IF stored # Str(default_keystore) THEN "custom"
    ELSE IF exists THEN "exists"
    ELSE "create"

\* the arguments of keytool -genkey
KeytoolArgs(keystore, dname) ==
    <<"keytool", "-genkey", "-keystore", keystore, "-alias", "android",
      "-keyalg", "RSA", "-keysize", "2048", "-keypass", "android",
      "-storepass", "android", "-dname", dname, "-validity", "20000">>

\* what interface.input returns
Org == "Me"

\* generate_keys, up to the first prompt
generate_keys ==
    /\ pc = "generate_keys"
    /\ LET default_keystore == Slashes(PlatPath("android.keystore"))
           f == SeedDefaults(props.local, default_keystore)
           d == KeyDecision(get_property(f, KeyStore), default_keystore,
                            KeystoreExists(PlatPath("android.keystore")))
       IN  /\ props' = [props EXCEPT !.local = f]
           /\ log' = log \o SeedEvents("generate_keys", "local.properties")
                         \o (IF d = "create" THEN <<>>
                             ELSE <<Ev("generate_keys", "info", <<d>>, TRUE)>>)
           /\ pc' = IF d = "create" THEN "generate_keys.yesno1"
                    ELSE After("generate_keys")
    /\ UNCHANGED <<op, rt, wr, sdk, keystores, env, xi, runs, prev, clobbered>>

\* generate_keys: the two yes/no prompts; a "no" returns
YesNo ==
    /\ \E n \in {"1", "2"}, answer \in BOOLEAN :
        /\ pc = "generate_keys.yesno" \o n
        /\ log' = Append(log, Ev("generate_keys", "yesno", <<n>>, answer))
        /\ pc' = IF ~answer THEN After("generate_keys")
                 ELSE IF n = "1" THEN "generate_keys.yesno2"
                 ELSE "generate_keys.input"
    /\ UNCHANGED <<props, op, rt, wr, sdk, keystores, env, xi, runs, prev, clobbered>>

\* generate_keys: the name or organisation
Input ==
    /\ pc = "generate_keys.input"
    /\ log' = Append(log, Ev("generate_keys", "input", <<Org>>, TRUE))
    /\ pc' = "generate_keys.keytool"
    /\ UNCHANGED <<props, op, rt, wr, sdk, keystores, env, xi, runs, prev, clobbered>>

\* generate_keys: keytool -genkey -keystore android.keystore
Keytool ==
    /\ pc = "generate_keys.keytool"
    /\ \E ok \in BOOLEAN :
        /\ log' = log \o <<Ev("generate_keys", "call",
                              KeytoolArgs("android.keystore", "CN=" \o Org), ok)>>
                      \o FailEvents("generate_keys", ok, After("generate_keys"))
                      \o (IF ok THEN <<Ev("generate_keys", "success", <<>>, TRUE)>>
                          ELSE <<>>)
        /\ pc' = OnResult(ok, After("generate_keys"))
        /\ keystores' = IF ok THEN keystores \cup {PlatPath("android.keystore")}
                        ELSE keystores
        /\ clobbered' = (clobbered \/ KeystoreExists(PlatPath("android.keystore")))
    /\ UNCHANGED <<props, op, rt, wr, sdk, env, xi, runs, prev>>

\* generate_bundle_keys, up to keytool
generate_bundle_keys ==
    /\ pc = "generate_bundle_keys"
    /\ LET default_keystore == Slashes(PlatPath("bundle.keystore"))
           f == SeedDefaults(props.bundle, default_keystore)
           d == KeyDecision(get_property(f, KeyStore), default_keystore,
                            KeystoreExists(PlatPath("bundle.keystore")))
       IN  /\ props' = [props EXCEPT !.bundle = f]
           /\ log' = log \o SeedEvents("generate_bundle_keys", "bundle.properties")
           /\ pc' = IF d = "create" THEN "generate_bundle_keys.keytool"
                    ELSE After("generate_bundle_keys")
    /\ UNCHANGED <<op, rt, wr, sdk, keystores, env, xi, runs, prev, clobbered>>

\* generate_bundle_keys: keytool -genkey -keystore bundle.keystore
BundleKeytool ==
    /\ pc = "generate_bundle_keys.keytool"
    /\ \E ok \in BOOLEAN :
        /\ log' = log \o <<Ev("generate_bundle_keys", "call",
                              KeytoolArgs("bundle.keystore", "CN=Ren'Py Creator"), ok)>>
                      \o FailEvents("generate_bundle_keys", ok,
                                    After("generate_bundle_keys"))
        /\ pc' = OnResult(ok, After("generate_bundle_keys"))
        /\ keystores' = IF ok THEN keystores \cup {PlatPath("bundle.keystore")}
                        ELSE keystores
        /\ clobbered' = (clobbered \/ KeystoreExists(PlatPath("bundle.keystore")))
    /\ UNCHANGED <<props, op, rt, wr, sdk, env, xi, runs, prev>>

\* install_sdk: sdk.dir into local.properties, then into bundle.properties
WriteSdkDir ==
    /\ \E which \in {"local", "bundle"} :
        /\ pc = "sdk_dir_" \o which
        /\ props' = [props EXCEPT
                        ![which] = set_property(@, SdkDirKey, Slashes(PlatSdk), TRUE)]
        /\ log' = Append(log, Ev("install_sdk", "set_property",
                                 <<which \o ".properties", "sdk.dir", "replace">>, TRUE))
        /\ pc' = After(pc)
    /\ UNCHANGED <<op, rt, wr, sdk, keystores, env, xi, runs, prev, clobbered>>

\* install_sdk: interface.final_success
FinalSuccess ==
    /\ pc = "final_success"
    /\ log' = Append(log, Ev("install_sdk", "final_success", <<>>, TRUE))
    /\ pc' = "done"
    /\ UNCHANGED <<props, op, rt, wr, sdk, keystores, env, xi, runs, prev, clobbered>>

\* install_sdk is called (again)
NewRun ==
    /\ pc \in {"idle", "done", "failed", "cancelled"}
    /\ runs < MaxRuns
    /\ runs' = runs + 1
    /\ prev' = [valid |-> (pc = "done"),
                 declined |-> \E i \in 1..Len(log) :
                                 log[i].ev = "yesno" /\ ~log[i].ok,
                 interrupted |-> /\ pc = "cancelled"
                                 /\ log[Len(log)].arg[1] \in ExtractUnit,
                 props |-> props, sdk |-> sdk, keystores |-> keystores]
    /\ pc' = install_sdk[1]
    /\ log' = <<>>
    /\ xi' = 1
    /\ UNCHANGED <<props, op, rt, wr, sdk, keystores, env, clobbered>>

----------------------------------------------------------------------------
(* The states install_sdk may be started in *)

\* a tree in which the SDK is unpacked
UnpackedTree ==
    [dirs |-> {SdkDir, CmdlineTools, CmdlineLatest, CmdlineLatest \o <<"bin">>},
     files |-> {SdkManager, CmdlineLatest \o <<"NOTICE.txt">>}]

InitTrees ==
    {EmptyTree, UnpackedTree,
     InstallPackages(UnpackedTree, <<"platform-tools">>),
     InstallPackages(UnpackedTree, <<"platform-tools", "platforms;android-30">>)}

\* os.environ: RAPT_NO_TERMS unset, set to the empty string, set to "0"
InitEnviron ==
    {{}, {[name |-> "RAPT_NO_TERMS", value |-> ""]},
     {[name |-> "RAPT_NO_TERMS", value |-> "0"]}}

\* local.properties: missing; with a keystore of the user's; with a last
\* line that lacks its "\n"; with a line that ends in "\r\n"; with an old
\* sdk.dir and the default keystore written with blanks around the "="
InitLocal ==
    {NoFile,
     File(KeyStore \o <<EQ>> \o CustomKeystore \o <<NL>>),
     File(<<"x", EQ, "1">>),
     File(<<"x", EQ, "1", CR, NL>>),
     File(<<"sdk.dir", EQ, "/", "old", NL>> \o KeyStore \o <<" ", EQ, " ">>
            \o Slashes(PlatPath("android.keystore")) \o <<NL>>)}

InitBundle ==
    {NoFile, File(KeyStore \o <<EQ>> \o CustomKeystore \o <<NL>>)}

Init ==
    /\ env \in [windows : BOOLEAN, environ : InitEnviron]
    /\ props \in [local : InitLocal, bundle : InitBundle]
    /\ keystores \in SUBSET {PlatPath("android.keystore"),
                             PlatPath("bundle.keystore"), CustomKeystore}
    /\ sdk \in InitTrees
    /\ pc = "idle" /\ log = <<>> /\ xi = 1 /\ runs = 0
    /\ prev = [valid |-> FALSE, declined |-> FALSE, interrupted |-> FALSE,
               props |-> props, sdk |-> sdk, keystores |-> keystores]
    /\ clobbered = FALSE
    /\ op = NoOp /\ rt = <<>> /\ wr = NoWrite

Next ==
    \/ NewRun
    \/ CopyProject
    \/ check_java
    \/ check_javac
    \/ check_java_version
    \/ unpack_sdk
    \/ Terms
    \/ Download
    \/ extract
    \/ ExtractError
    \/ ReorganizeStep
    \/ Cancel
    \/ get_packages
    \/ RunSdkManager
    \/ generate_keys
    \/ YesNo
    \/ Input
    \/ Keytool
    \/ generate_bundle_keys
    \/ BundleKeytool
    \/ WriteSdkDir
    \/ FinalSuccess

Spec == Init /\ [][Next]_vars

----------------------------------------------------------------------------
(* Claims about the property store, checked under SpecProps *)

\* the lines of a file that belong to keys other than key, in file order
OtherLines(f, key) ==
    LET ls == IF f.exists THEN SplitLines(Universal(f.data)) ELSE <<>>
    IN  SelectSeq(ls, LAMBDA l : Strip(Partition(l).k) # key)

\* the file holds a line for key
Holds(f, key) ==
    /\ f.exists
    /\ \E i \in 1..Len(SplitLines(Universal(f.data))) :
           Strip(Partition(SplitLines(Universal(f.data))[i]).k) = key

\* no two lines of the file have the same key
KeysUnique(f) ==
    LET ls == IF f.exists THEN SplitLines(Universal(f.data)) ELSE <<>>
    IN  \A i, j \in 1..Len(ls) :
            i # j => Strip(Partition(ls[i]).k) # Strip(Partition(ls[j]).k)

\* every line of the file is key=value with one of the harness's keys and
\* values (the last line may lack its "\n")
PlainPairs(f) ==
    LET ls == IF f.exists THEN SplitLines(Universal(f.data)) ELSE <<>>
    IN  \A i \in 1..Len(ls) :
            /\ \E n \in 1..Len(ls[i]) : ls[i][n] = EQ
            /\ Strip(Partition(ls[i]).k) \in Keys
            /\ Strip(Partition(ls[i]).v) \in Values

\* C3: set_property with replace=False on a file that already holds the key
\* leaves the file exactly as it was, whatever value is passed.
C3_NoOpWhenPresent ==
    (op.name = "set" /\ ~op.replace /\ Holds(op.before, op.key))
        => props.local = op.before

\* C3 witness: a call with replace=False and value 2 on a file that stores 1
\* for the key has returned.
C3_Witness ==
    /\ op.name = "set" /\ ~op.replace /\ op.value = <<"2">>
    /\ get_property(op.before, op.key) = Str(<<"1">>)
    /\ Len(SplitLines(Universal(op.before.data))) >= 2

\* C4 (as claimed, on files of plain key=value lines): with replace=True, or
\* with the key not in the file, the file afterwards is the original lines of the other keys, unchanged and in
\* order, followed by exactly one final line key=value.
C4_AppendResult ==
    (/\ op.name = "set" /\ PlainPairs(op.before)
     /\ (op.replace \/ ~Holds(op.before, op.key)))
        => /\ props.local.exists
           /\ SplitLines(Universal(props.local.data))
                = OtherLines(op.before, op.key)
                    \o <<op.key \o <<EQ>> \o op.value \o <<NL>> >>

\* C5 (as claimed, for a file of plain key=value lines without key a): set(f,a,1) then
\* get(f,a) returns 1; set(f,a,2,replace=False) leaves get(f,a) = 1;
\* set(f,a,2,replace=True) makes get(f,a) = 2; the lines of the other keys
\* are the original ones, in order, throughout.
C5_RoundTrip ==
    (op.name = "script" /\ PlainPairs(op.before) /\ ~Holds(op.before, <<"a">>))
        => /\ rt[1].got = Str(<<"1">>)
           /\ Len(rt) >= 2 => rt[2].got = Str(<<"1">>)
           /\ Len(rt) >= 3 => rt[3].got = Str(<<"2">>)
           /\ \A n \in 1..Len(rt) :
                  OtherLines(rt[n].file, <<"a">>) = OtherLines(op.before, <<"a">>)

\* C6 (as claimed, for a file of plain key=value lines with unique keys): after
\* any set_property call every key is on at most one line, and the lines of
\* the other keys are preserved verbatim in their order.
C6_UniqueAndPreserved ==
    (op.name = "set" /\ PlainPairs(op.before) /\ KeysUnique(op.before))
        => /\ KeysUnique(props.local)
           /\ OtherLines(props.local, op.key) = OtherLines(op.before, op.key)

\* C7 (as claimed): get_property on a missing file returns None and does not
\* raise; on an existing file it returns None when no line has the key, and
\* otherwise the trimmed value of the first line that has it.
C7_GetResult ==
    op.name = "get"
        => IF ~Holds(op.before, op.key)
           THEN op.result = None
           ELSE LET ls == SplitLines(Universal(op.before.data))
                    i == CHOOSE i \in 1..Len(ls) :
                            /\ Strip(Partition(ls[i]).k) = op.key
                            /\ \A j \in 1..(i - 1) : Strip(Partition(ls[j]).k) # op.key
                IN  op.result = Str(Strip(Partition(ls[i]).v))

----------------------------------------------------------------------------
(* Claims about install_sdk, checked under Spec *)

\* a file exists at the path the text p names (Windows takes "/" for "\")
FileAt(p) ==
    \E k \in keystores :
        IF env.windows THEN Slashes(k) = Slashes(p) ELSE k = p

\* a keystore file exists at the path the property file gives for key.store
ConfiguredKeystoreExists(f) ==
    /\ get_property(f, KeyStore).tag = "str"
    /\ FileAt(get_property(f, KeyStore).val)

\* the run has made a call of this kind
Called(fn, ev) == \E i \in 1..Len(log) : log[i].fn = fn /\ log[i].ev = ev

\* C1: when a keystore file exists at the path configured as key.store,
\* neither generate_keys nor generate_bundle_keys gets to its keytool call,
\* and keytool never writes onto an existing keystore.
C1_KeyNonDestruction ==
    /\ pc = "generate_keys.keytool" => ~ConfiguredKeystoreExists(props.local)
    /\ pc = "generate_bundle_keys.keytool" => ~ConfiguredKeystoreExists(props.bundle)
    /\ ~clobbered

\* C1 witness: a run is done in which android.keystore existed at the
\* configured (default) path, generate_keys returned at its second check,
\* and keytool was not called for it.
C1_Witness ==
    /\ pc = "done"
    /\ get_property(props.local, KeyStore) = Str(Slashes(PlatPath("android.keystore")))
    /\ ConfiguredKeystoreExists(props.local)
    /\ \E i \in 1..Len(log) :
           log[i].fn = "generate_keys" /\ log[i].ev = "info" /\ log[i].arg = <<"exists">>
    /\ ~Called("generate_keys", "call")
    /\ Called("generate_bundle_keys", "call")

\* C2 (as claimed, for a first run in which no prompt was declined): a
\* second complete run leaves both property files as the first complete run
\* left them, and makes neither a download nor a keytool call.
C2_Idempotent ==
    (pc = "done" /\ prev.valid /\ ~prev.declined)
        => /\ props = prev.props
           /\ ~Called("unpack_sdk", "download")
           /\ ~Called("generate_keys", "call")
           /\ ~Called("generate_bundle_keys", "call")

\* the place of a call in the order of install_sdk (0: not a step)
Stage(e) ==
    CASE e.ev = "copy_project" -> 1
      [] e.fn = "check_java" -> 2
      [] e.fn = "unpack_sdk" -> 3
      [] e.fn = "get_packages" -> 4
      [] e.fn = "generate_keys" -> 5
      [] e.fn = "generate_bundle_keys" -> 6
      [] e.ev = "set_property" /\ e.fn = "install_sdk"
            /\ e.arg = <<"local.properties", "sdk.dir", "replace">> -> 7
      [] e.ev = "set_property" /\ e.fn = "install_sdk"
            /\ e.arg = <<"bundle.properties", "sdk.dir", "replace">> -> 8
      [] e.ev = "final_success" -> 9
      [] OTHER -> 0

\* the calls that need the toolchain check to have passed
NeedsToolchain(e) ==
    \/ e.ev \in {"download", "terms", "yesno", "input", "set_property"}
    \/ e.ev = "call" /\ e.arg[1] \in {"sdkmanager", "keytool"}

ToolchainPassed(e) == e.fn = "check_java" /\ e.ev = "success"

\* C8: the calls of a run are in the order copy_project, check_java (javac
\* before java), unpack_sdk, get_packages, generate_keys,
\* generate_bundle_keys, sdk.dir into local.properties, sdk.dir into
\* bundle.properties, final_success; no download, sdkmanager call, prompt,
\* keytool call or property write comes before check_java's success; and
\* final_success comes after both sdk.dir writes.
C8_Ordering ==
    /\ \A i, j \in 1..Len(log) :
        (i < j /\ Stage(log[i]) # 0 /\ Stage(log[j]) # 0)
            => Stage(log[i]) <= Stage(log[j])
    /\ \A i, j \in 1..Len(log) :
        (log[i].ev = "call" /\ log[i].arg = <<"javac">>
            /\ log[j].ev = "call" /\ log[j].arg = <<"java">>) => i < j
    /\ \A j \in 1..Len(log) :
        NeedsToolchain(log[j]) => \E i \in 1..(j - 1) : ToolchainPassed(log[i])
    /\ \A j \in 1..Len(log) :
        log[j].ev = "final_success"
            => /\ log[1].ev = "copy_project"
               /\ \E i \in 1..(j - 1), k \in 1..(j - 1) :
                    i < k /\ Stage(log[i]) = 7 /\ Stage(log[k]) = 8

\* C8 witness: a run that downloaded and unpacked the SDK, installed
\* packages, created both keys and reached final_success.
C8_Witness ==
    /\ pc = "done"
    /\ Called("unpack_sdk", "download") /\ Called("get_packages", "call")
    /\ Called("generate_keys", "call") /\ Called("generate_bundle_keys", "call")
    /\ log[Len(log)].ev = "final_success"

\* a fatal failure: an external process, the download or the extraction failed
Fatal(e) == e.ev \in {"call", "download", "raise"} /\ ~e.ok

\* C9: after a failed javac, java, download, extraction, sdkmanager or
\* keytool call the run is over: nothing follows in the run but the failure
\* message, so no process, prompt, sdk.dir write or final_success.
C9_FatalAborts ==
    \A i \in 1..Len(log) :
        Fatal(log[i])
            => /\ pc = "failed"
               /\ \A j \in (i + 1)..Len(log) : log[j].ev = "fail"

\* C9 witness: keytool failed for the primary key after the user agreed to
\* both prompts, and the run is over.
C9_Witness ==
    /\ pc = "failed"
    /\ \E i \in 1..Len(log) :
        /\ log[i].fn = "generate_keys" /\ log[i].ev = "call" /\ ~log[i].ok
        /\ log[i - 2].ev = "yesno" /\ log[i - 2].ok

\* C10: in a run that started to fetch the SDK, plat.sdkmanager exists only
\* once the last rename of extract has completed; so wherever the unit of
\* work is interrupted, the next run's check finds the SDK not unpacked.
C10_NoFalseReady ==
    (Called("unpack_sdk", "download") /\ PathExists(sdk, SdkManager))
        => \E i \in 1..Len(log) :
              log[i].fn = "unpack_sdk" /\ log[i].ev = "success"
                /\ log[i].arg = <<"unpacked">>

\* C10 witness: the unit of work was cancelled after the mkdir, before the
\* last rename: Sdk/latest holds the tools and Sdk/cmdline-tools is empty.
C10_Witness ==
    /\ pc = "cancelled"
    /\ log[Len(log)].arg = <<"unpack_sdk.rename2">>
    /\ Latest \o <<"bin", "sdkmanager">> \in sdk.files
    /\ CmdlineTools \in sdk.dirs
    /\ ~PathExists(sdk, SdkManager)

\* the last call of the run
LastEv == log[Len(log)]

\* C11 (as claimed): a run that follows a run interrupted inside the
\* extraction unit of work does not fail on the directories that run left:
\* none of the rename, mkdir, rename steps raises.
C11_Recovery ==
    (prev.interrupted /\ pc = "failed")
        => ~(LastEv.ev = "raise"
                /\ LastEv.arg[1] \in {"rename1", "mkdir", "rename2"})

\* C12: when plat.sdkmanager exists as the run starts, unpack_sdk shows no
\* terms, downloads nothing, starts no extraction and raises nothing, and
\* the tree stays as it was (until get_packages installs packages).
C12_ShortCircuit ==
    (runs >= 1 /\ PathExists(prev.sdk, SdkManager))
        => /\ \A i \in 1..Len(log) :
                log[i].fn = "unpack_sdk"
                    => log[i].ev \notin {"terms", "download", "background",
                                         "raise", "info"}
           /\ pc \notin {"unpack_sdk.terms", "unpack_sdk.download"} \cup ExtractUnit
           /\ (~\E i \in 1..Len(log) :
                    log[i].fn = "get_packages" /\ log[i].ev = "call" /\ log[i].ok
                        /\ log[i].arg[3] \notin {"--update", "--licenses"})
                => sdk = prev.sdk

\* C12 witness: the SDK was unpacked but a package is missing; unpack_sdk
\* has returned and get_packages is about to run sdkmanager.
C12_Witness ==
    /\ pc = "get_packages.update"
    /\ PathExists(prev.sdk, SdkManager)
    /\ sdk = prev.sdk
    /\ \E i \in 1..Len(log) : log[i].fn = "unpack_sdk" /\ log[i].ev = "success"

\* C13: a download is started only after the terms were shown and accepted
\* in the same run, unless RAPT_NO_TERMS is in the environment (with any
\* value, the empty string included); then the terms are never shown.
C13_TermsBeforeDownload ==
    /\ \A j \in 1..Len(log) :
        log[j].ev = "download"
            => \/ \E e \in env.environ : e.name = "RAPT_NO_TERMS"
               \/ \E i \in 1..(j - 1) : log[i].ev = "terms" /\ log[i].ok
    /\ (\E e \in env.environ : e.name = "RAPT_NO_TERMS")
            => /\ ~\E i \in 1..Len(log) : log[i].ev = "terms"
               /\ pc # "unpack_sdk.terms"
    /\ pc = "unpack_sdk.download"
            => \/ \E e \in env.environ : e.name = "RAPT_NO_TERMS"
               \/ (LastEv.ev = "terms" /\ LastEv.ok)

\* C13 witness: a download was made with RAPT_NO_TERMS set to the empty
\* string, and no terms were shown.
C13_Witness ==
    /\ env.environ = {[name |-> "RAPT_NO_TERMS", value |-> ""]}
    /\ \E j \in 1..Len(log) : log[j].ev = "download" /\ log[j].ok
    /\ ~\E i \in 1..Len(log) : log[i].ev = "terms"

\* the wanted package ids whose directory is not in the tree
MissingIds(fs) ==
    {id \in {"platform-tools", "platforms;android-30"} :
        ~PathExists(fs, IF id = "platform-tools"
                        THEN <<"Sdk", "platform-tools">>
                        ELSE <<"Sdk", "platforms", "android-30">>)}

\* the package manager invocations of the run, in order
PkgCalls == SelectSeq(log, LAMBDA e : e.fn = "get_packages" /\ e.ev = "call")

\* C14: with no wanted package missing the package manager is never run;
\* otherwise it is run with auto-yes for --update, then --licenses, then
\* once for exactly the missing package ids; a failed invocation ends the
\* run, so none follows it; a run that gets past get_packages has made all
\* three.
C14_Packages ==
    LET M == MissingIds(prev.sdk)
        calls == PkgCalls
    IN  /\ M = {} => (calls = <<>> /\ pc \notin {"get_packages.update",
                            "get_packages.licenses", "get_packages.install"})
        /\ Len(calls) <= 3
        /\ Len(calls) >= 1 => calls[1].arg = <<"sdkmanager", "yes=True", "--update">>
        /\ Len(calls) >= 2 => calls[2].arg = <<"sdkmanager", "yes=True", "--licenses">>
        /\ Len(calls) >= 3 =>
              /\ SubSeq(calls[3].arg, 1, 2) = <<"sdkmanager", "yes=True">>
              /\ {calls[3].arg[n] : n \in 3..Len(calls[3].arg)} = M
              /\ Len(calls[3].arg) = 2 + Cardinality(M)
        /\ \A n \in 1..Len(calls) :
              ~calls[n].ok => (n = Len(calls) /\ pc = "failed")
        /\ (M # {} /\ Called("generate_keys", "set_property"))
              => (Len(calls) = 3 /\ calls[3].ok)

\* C14 witness: platform-tools was installed and the android-30 platform
\* was not; the run made the three invocations and went on to the end.
C14_Witness ==
    /\ pc = "done"
    /\ MissingIds(prev.sdk) = {"platforms;android-30"}
    /\ Len(PkgCalls) = 3
    /\ PkgCalls[3].arg = <<"sdkmanager", "yes=True", "platforms;android-30">>

\* the four keys both key functions seed
SeededKeys ==
    {<<"key.alias">>, <<"key.store.password">>, <<"key.alias.password">>,
     <<"key.store">>}

\* the user answered no to one of the two prompts of generate_keys
DeclinedPrompt ==
    \E i \in 1..Len(log) :
        log[i].fn = "generate_keys" /\ log[i].ev = "yesno" /\ ~log[i].ok

\* C15 (as claimed, a failing bundle keytool aside): after a "no" to either
\* prompt keytool is not run for the primary key, android.keystore is not
\* created, local.properties has a line for each of the four default keys,
\* and the run goes on: it fails only if keytool fails for the bundle key.
C15_DeclineNotFatal ==
    DeclinedPrompt
        => /\ ~Called("generate_keys", "call")
           /\ pc \notin {"generate_keys.input", "generate_keys.keytool",
                         "cancelled"}
           /\ PlatPath("android.keystore") \notin keystores
           /\ \A k \in SeededKeys : Holds(props.local, k)
           /\ pc = "failed" => (LastEv.fn = "generate_bundle_keys"
                                    /\ LastEv.ev = "fail")

\* the keytool call generate_bundle_keys makes
BundleKeytoolCall ==
    <<"keytool", "-genkey", "-keystore", "bundle.keystore", "-alias", "android",
      "-keyalg", "RSA", "-keysize", "2048", "-keypass", "android",
      "-storepass", "android", "-dname", "CN=Ren'Py Creator",
      "-validity", "20000">>

\* generate_bundle_keys has just written (or kept) key.store
BundleSeeded(e) ==
    /\ e.fn = "generate_bundle_keys" /\ e.ev = "set_property"
    /\ e.arg = <<"bundle.properties", "key.store">>

\* C16: generate_bundle_keys never calls yesno, input, info, success or
\* final_success; it runs keytool exactly when the key.store stored in
\* bundle.properties is the default bundle keystore path and no file exists
\* there, with the fixed distinguished name and passwords, and never
\* otherwise.
C16_SilentBundle ==
    /\ \A i \in 1..Len(log) :
        log[i].fn = "generate_bundle_keys"
            => /\ log[i].ev \in {"set_property", "call", "fail"}
               /\ log[i].ev = "call"
                    => (log[i].arg = BundleKeytoolCall /\ BundleSeeded(log[i - 1]))
    /\ (Len(log) > 0 /\ BundleSeeded(LastEv))
        => (pc = "generate_bundle_keys.keytool"
              <=> /\ get_property(props.bundle, <<"key.store">>)
                        = Str(Slashes(PlatPath("bundle.keystore")))
                  /\ PlatPath("bundle.keystore") \notin keystores)
    /\ pc = "generate_bundle_keys.keytool" => BundleSeeded(LastEv)

\* C16 witness: bundle.properties held no key.store and bundle.keystore did
\* not exist; keytool was run for it, and the run is done.
C16_Witness ==
    /\ pc = "done"
    /\ PlatPath("bundle.keystore") \notin prev.keystores
    /\ PlatPath("bundle.keystore") \in keystores
    /\ \E i \in 1..Len(log) :
        log[i].fn = "generate_bundle_keys" /\ log[i].ev = "call" /\ log[i].ok

\* the run started with no property files, no keystores and no SDK
FreshStart ==
    /\ prev.sdk = EmptyTree
    /\ prev.props = [local |-> NoFile, bundle |-> NoFile]
    /\ prev.keystores = {}

\* the number of events ev logged by fn in this run
Count(fn, ev) ==
    Cardinality({i \in 1..Len(log) : log[i].fn = fn /\ log[i].ev = ev})

\* the five lines of local.properties after a full run on a fresh project
FreshLocalLines ==
    {<<"key.alias", EQ, "android", NL>>,
     <<"key.store.password", EQ, "android", NL>>,
     <<"key.alias.password", EQ, "android", NL>>,
     <<"key.store", EQ>> \o Slashes(PlatPath("android.keystore")) \o <<NL>>,
     <<"sdk.dir", EQ>> \o Slashes(PlatSdk) \o <<NL>>}

\* C17: a full run started with no property files, no keystores and no SDK,
\* with every prompt accepted and every tool succeeding, ends with
\* local.properties holding exactly the five lines key.alias=android,
\* key.store.password=android, key.alias.password=android, key.store=<default
\* keystore path>, sdk.dir=<SDK path>, each once; keytool was run once for
\* the primary key and once for the bundle key, and the input prompt was
\* shown exactly once, by generate_keys.
C17_FreshProject ==
    (FreshStart /\ pc = "done" /\ \A i \in 1..Len(log) : log[i].ok)
        => /\ props.local.exists
           /\ Len(SplitLines(Universal(props.local.data))) = 5
           /\ {SplitLines(Universal(props.local.data))[i] : i \in 1..5} = FreshLocalLines
           /\ Count("generate_keys", "call") = 1
           /\ Count("generate_bundle_keys", "call") = 1
           /\ Count("generate_keys", "input") = 1
           /\ Cardinality({i \in 1..Len(log) : log[i].ev = "input"}) = 1
           /\ keystores = {PlatPath("android.keystore"),
                           PlatPath("bundle.keystore")}

\* C17 witness: a run on a fresh project under Windows is done, with every
\* prompt accepted and every tool having succeeded.
C17_Witness ==
    /\ FreshStart /\ pc = "done" /\ env.windows
    /\ \A i \in 1..Len(log) : log[i].ok
    /\ Called("generate_keys", "input")

\* C18: when the key.store read back after seeding differs from the default
\* path, generate_keys (for local.properties) and generate_bundle_keys (for
\* bundle.properties) show no yes/no or input prompt, do not run keytool and
\* write no further property: the file is what the four first-write-wins
\* writes left, whether or not any keystore file exists.
C18_CustomKeystore ==
    /\ (/\ Called("generate_keys", "set_property")
        /\ get_property(props.local, <<"key.store">>)
              # Str(Slashes(PlatPath("android.keystore"))))
        => /\ \A i \in 1..Len(log) :
                log[i].fn = "generate_keys"
                    => log[i].ev \in {"set_property", "info"}
           /\ Count("generate_keys", "set_property") = 4
           /\ pc \notin {"generate_keys.yesno1", "generate_keys.yesno2",
                         "generate_keys.input", "generate_keys.keytool"}
           /\ (PlatPath("android.keystore") \in keystores
                 <=> PlatPath("android.keystore") \in prev.keystores)
           /\ ~Called("install_sdk", "set_property")
                 => props.local
                      = SeedDefaults(prev.props.local,
                                     Slashes(PlatPath("android.keystore")))
    /\ (/\ Called("generate_bundle_keys", "set_property")
        /\ get_property(props.bundle, <<"key.store">>)
              # Str(Slashes(PlatPath("bundle.keystore"))))
        => /\ \A i \in 1..Len(log) :
                log[i].fn = "generate_bundle_keys" => log[i].ev = "set_property"
           /\ Count("generate_bundle_keys", "set_property") = 4
           /\ pc # "generate_bundle_keys.keytool"
           /\ (PlatPath("bundle.keystore") \in keystores
                 <=> PlatPath("bundle.keystore") \in prev.keystores)
           /\ ~Called("install_sdk", "set_property")
                 => props.bundle
                      = SeedDefaults(prev.props.bundle,
                                     Slashes(PlatPath("bundle.keystore")))

\* C18 witness: local.properties names a keystore of the user's, no
\* keystore file exists anywhere, and the run is done without a prompt.
C18_Witness ==
    /\ pc = "done"
    /\ keystores = {} /\ prev.keystores = {}
    /\ get_property(props.local, <<"key.store">>) = Str(CustomKeystore)
    /\ get_property(props.bundle, <<"key.store">>) = Str(CustomKeystore)
    /\ Called("generate_keys", "info")

\* file f holds a line for each seeded key, and the values that before
\* held for those keys are the values f holds
Seeded(before, f) ==
    \A k \in SeededKeys :
        /\ Holds(f, k)
        /\ get_property(before, k).tag = "str"
              => get_property(f, k) = get_property(before, k)

\* C20 (as claimed): once generate_keys has made its writes, on every way
\* out of it, local.properties holds a line for each of key.alias,
\* key.store.password, key.alias.password and key.store, and every value
\* these keys had before the call is unchanged; the same for
\* generate_bundle_keys and bundle.properties.
C20_DefaultsSeeded ==
    /\ (Called("generate_keys", "set_property")
            /\ ~Called("install_sdk", "set_property"))
        => Seeded(prev.props.local, props.local)
    /\ (Called("generate_bundle_keys", "set_property")
            /\ ~Called("install_sdk", "set_property"))
        => Seeded(prev.props.bundle, props.bundle)

----------------------------------------------------------------------------
(* Claims about an interrupted write, checked under SpecWrite *)

\* the file is empty or its last line ends with "\n"
Terminated(f) == f.data = <<>> \/ f.data[Len(f.data)] = NL

\* a call in which the read loop met no exception leaves what
\* set_property leaves
WriteAgrees ==
    (op.name = "set" /\ ~wr.readfail)
        => props.local = set_property(op.before, op.key, op.value, op.replace)

\* C19 (as claimed): when set_property is stopped after the file has been
\* opened for writing and before the last line has been written, the file
\* holds either the complete old content or the complete new content.
\* Stated for files of key=value lines that end with a newline, for calls
\* whose read loop met no exception, and for a stop between two statements.
C19_InterruptedWrite ==
    (/\ op.name = "interrupted" /\ wr.at = "writing" /\ wr.pending # <<>>
     /\ wr.raw = <<>> /\ ~wr.readfail
     /\ op.before.exists /\ PlainPairs(op.before) /\ Terminated(op.before))
        => props.local \in {op.before,
                            set_property(op.before, op.key, op.value, op.replace)}

====
